---------------------------- MODULE Spec2Model ----------------------------
(***************************************************************************)
(* A model of xpec-gen (src/mod.ts): the OpenRouter client with its retry  *)
(* loop (queryOpenRouter), the three agents, the pipeline of main() and    *)
(* the sanitizer cleanCode.                                                *)
(*                                                                         *)
(* Texts are sequences of characters.  Five characters stand for the      *)
(* classes the regular expressions and trim() of cleanCode tell apart:    *)
(* the backtick, a word character (\w), the line feed, another white      *)
(* space, and a character that is neither \w nor white space.             *)
(***************************************************************************)
EXTENDS Integers, Sequences, FiniteSets, TLC

\* ------------------------------------------------------------------ bounds

\* Longest free text given to cleanCode.
MaxLen == 7
\* Longest language tag and longest interior of a fenced text.
MaxTag == 2
MaxInterior == 3
\* Largest retry budget a direct call of queryOpenRouter is given.
MaxRetries == 3

\* --------------------------------------------------------------- characters

\* The backtick (the lexer of TLA+ takes no backtick inside a string).
BT == "tick"
NL == "\n"
WordChars == {"a"}
SpaceChars == {NL, " "}
OtherChars == {"+"}
Alphabet == {BT} \cup WordChars \cup SpaceChars
TagAlphabet == WordChars \cup OtherChars
FullAlphabet == Alphabet \cup OtherChars

Fence == <<BT, BT, BT>>

\* All texts over alphabet A of length at most n.
TextsUpTo(A, n) == UNION {[1..k -> A] : k \in 0..n}

\* ------------------------------------------------------------- cleanCode

\* s holds ``` at position i.
FenceAt(s, i) ==
    /\ i + 2 <= Len(s)
    /\ s[i] = BT /\ s[i+1] = BT /\ s[i+2] = BT

\* The first position at or after i that holds no word character: the end of
\* the greedy [\w]*.
RECURSIVE SkipWord(_, _)
SkipWord(s, i) ==
    IF i <= Len(s) /\ s[i] \in WordChars THEN SkipWord(s, i + 1) ELSE i

\* Where a match of /```[\w]*\n/ that starts at i ends (the position after
\* it), 0 when there is none.  [\w]* is greedy and \n is no word character,
\* so backtracking finds no other match.
OpenMatchEnd(s, i) ==
    IF FenceAt(s, i)
    THEN LET j == SkipWord(s, i + 3)
         IN  IF j <= Len(s) /\ s[j] = NL THEN j + 1 ELSE 0
    ELSE 0

\* str.replace(/```[\w]*\n/g, ""), scanning from position i: leftmost,
\* non-overlapping matches, each replaced by the empty text.
RECURSIVE ReplaceOpen(_, _)
ReplaceOpen(s, i) ==
    IF i > Len(s) THEN <<>>
    ELSE LET e == OpenMatchEnd(s, i)
         IN  IF e # 0 THEN ReplaceOpen(s, e)
             ELSE <<s[i]>> \o ReplaceOpen(s, i + 1)

\* A replace without the g flag: only the first match is removed.
RECURSIVE ReplaceFenceFirstOnly(_, _)
ReplaceFenceFirstOnly(s, i) ==
    IF i > Len(s) THEN <<>>
    ELSE IF FenceAt(s, i) THEN SubSeq(s, i + 3, Len(s))
    ELSE <<s[i]>> \o ReplaceFenceFirstOnly(s, i + 1)

\* str.replace(/```/g, ""), scanning from position i.
RECURSIVE ReplaceFence(_, _)
ReplaceFence(s, i) ==
    IF i > Len(s) THEN <<>>
    ELSE IF FenceAt(s, i) THEN ReplaceFence(s, i + 3)
    ELSE <<s[i]>> \o ReplaceFence(s, i + 1)

RECURSIVE TrimStart(_)
TrimStart(s) ==
    IF s # <<>> /\ Head(s) \in SpaceChars THEN TrimStart(Tail(s)) ELSE s

RECURSIVE TrimEnd(_)
TrimEnd(s) ==
    IF s # <<>> /\ s[Len(s)] \in SpaceChars
    THEN TrimEnd(SubSeq(s, 1, Len(s) - 1)) ELSE s

\* String.prototype.trim
Trim(s) == TrimEnd(TrimStart(s))

\* cleanCode with the fences left in.
cleanCodeTrimOnly(str) == Trim(str)

\* cleanCode whose second replace lacks the g flag.
cleanCodeFirstFenceOnly(str) == Trim(ReplaceFenceFirstOnly(ReplaceOpen(str, 1), 1))

cleanCode(str) == Trim(ReplaceFence(ReplaceOpen(str, 1), 1))

\* s holds ``` somewhere.
HasFence(s) == \E i \in 1..Len(s) : FenceAt(s, i)

\* s is free of fence markers and of white space at its ends.
IsClean(s) ==
    /\ ~HasFence(s)
    /\ s = <<>> \/ (Head(s) \notin SpaceChars /\ s[Len(s)] \notin SpaceChars)

\* ------------------------------------------------------------------ state

VARIABLES
    \* cleanCode under test: its argument, its result, and the result of
    \* cleaning that result again
    str, cleaned, recleaned,
    \* queryOpenRouter: the module's API_KEY (TRUE: a non-empty key), the
    \* arguments, the loop counter, the position in the function, and what the
    \* caller gets: the returned text or the raised error
    API_KEY, messages, temperature, retries, attempt, cpc, result, error,
    \* what queryOpenRouter did during the current call: the number of fetch
    \* calls, the durations of the timers it awaited, how each finished attempt
    \* ended and the response of the latest attempt
    requests, sleeps, hist, response,
    \* main: its position, the texts it read, its local variable code, the
    \* agents it called (with their arguments) and what each returned, the
    \* text written to the output file and the exit status of the process
    pc, specContent, reviewContent, code, calls, returns, outFile, exitCode

cleanVars == <<str, cleaned, recleaned>>
clientVars == <<API_KEY, messages, temperature, retries, attempt, cpc, result,
                error, requests, sleeps, hist, response>>
mainVars == <<pc, specContent, reviewContent, code, calls, returns, outFile,
              exitCode>>
vars == <<cleanVars, clientVars, mainVars>>

\* ------------------------------------------------------- program constants

\* retries = 5, the default every agent relies on
DefaultRetries == 5
\* const waitTime = 2000 * attempt
RateLimitWaitUnit == 2000
\* setTimeout(r, 1000) of the catch block
ErrorWait == 1000
\* response.status === 429
TooManyRequests == 429
\* temperatures, in tenths: 0.7 for the Architect, 0.2 for the others,
\* and the default 0.7 of queryOpenRouter
DefaultTemperature == 7
ArchitectTemperature == 7
AuditorTemperature == 2
ReviewerTemperature == 2

\* ------------------------------------------------------------ the service

EmptyText == <<>>
PlainText == <<"a">>
FencedText == Fence \o <<"a", NL, "a", "a", NL>> \o Fence
PaddedText == <<" ", "a", "+", NL>>

\* The texts a completion may carry.
Contents == {EmptyText, PlainText, FencedText, PaddedText}

\* The body of a response, as response.json() finds it: not JSON, JSON
\* without a choices array, or choices whose first element is missing, has no
\* message, has no content, or has a content.
NoBody == [shape |-> "none", content |-> EmptyText]
Bodies ==
    {[shape |-> sh, content |-> EmptyText] :
        sh \in {"unparsable", "noChoices", "emptyChoices", "noMessage", "noContent"}}
    \cup {[shape |-> "content", content |-> c] : c \in Contents}

\* What one fetch ends with: a rejection (status 0: no response) or a
\* response with its status and body.
Rejected == [status |-> 0, body |-> NoBody]
Pending == [status |-> -1, body |-> NoBody]
Outcomes ==
    {Rejected}
    \cup {[status |-> st, body |-> NoBody] : st \in {TooManyRequests, 500, 503}}
    \cup {[status |-> 200, body |-> b] : b \in Bodies}

\* response.ok
Ok(st) == st >= 200 /\ st <= 299

\* ----------------------------------------------------------------- errors

NoError == [kind |-> "none", status |-> 0]
\* new Error("API Key não definida.")
ConfigError == [kind |-> "config", status |-> 0]
\* new Error(`API Error: ${response.status}`)
ApiError(st) == [kind |-> "api", status |-> st]
\* fetch rejects
TransportError == [kind |-> "transport", status |-> 0]
\* response.json() rejects
ParseError == [kind |-> "parse", status |-> 0]
\* data.choices[0] where data.choices is undefined
TypeError == [kind |-> "type", status |-> 0]

\* -------------------------------------------------------- queryOpenRouter

\* A try block whose error for a bad status does not say which status.
ThrownWithoutStatus(o) ==
    IF o.status = 0 THEN TransportError
    ELSE IF o.status = TooManyRequests THEN NoError
    ELSE IF ~Ok(o.status) THEN ApiError(0)
    ELSE IF o.body.shape = "unparsable" THEN ParseError
    ELSE IF o.body.shape = "noChoices" THEN TypeError
    ELSE NoError

\* What the try block raises on outcome o of its fetch (NoError: nothing):
\* the rejection of fetch, the Error thrown on a status that is not ok, the
\* rejection of response.json(), the TypeError of data.choices[0].  A 429 is
\* handled before any of them.
Thrown(o) ==
    IF o.status = 0 THEN TransportError
    ELSE IF o.status = TooManyRequests THEN NoError
    ELSE IF ~Ok(o.status) THEN ApiError(o.status)
    ELSE IF o.body.shape = "unparsable" THEN ParseError
    ELSE IF o.body.shape = "noChoices" THEN TypeError
    ELSE NoError

\* data.choices[0]?.message?.content || ""
Extract(b) == IF b.shape = "content" THEN b.content ELSE EmptyText

\* A backoff that does not grow with the attempt.
RateLimitWaitFlat(n) == RateLimitWaitUnit

\* A backoff indexed from 2.
RateLimitWaitNext(n) == RateLimitWaitUnit * (n + 1)

\* A backoff that counts the rate-limited attempts only.
RateLimitWaitOwnCount(n) ==
    RateLimitWaitUnit * (Cardinality({i \in 1..Len(hist) : hist[i] = "rateLimited"}) + 1)

\* const waitTime = 2000 * attempt
RateLimitWait(n) == RateLimitWaitUnit * n

\* A comparison the loop counter never satisfies inside the loop.
LastAttemptNever(n, r) == n > r

\* A catch block that also gives up on a failure of the first attempt.
LastAttemptOrFirst(n, r) == n = r \/ n = 1

\* attempt === retries
LastAttempt(n, r) == n = r

\* A loop that ends by raising when its attempts are used up.
LoopExitRaises ==
    /\ cpc' = "raised"
    /\ error' = ApiError(TooManyRequests)
    /\ UNCHANGED <<result, requests, response>>

\* The loop condition fails: return ""
LoopExit ==
    /\ cpc' = "returned"
    /\ result' = EmptyText
    /\ UNCHANGED <<error, requests, response>>

\* A key check that comes after the first request.
KeyCheckLate(r) ==
    /\ attempt' = 1
    /\ requests' = 1
    /\ IF ~API_KEY
       THEN cpc' = "raised" /\ error' = ConfigError
       ELSE cpc' = "fetching" /\ error' = NoError

\* if (!API_KEY) throw ...; then the loop is entered and, when 1 <= retries,
\* the first fetch is issued.
KeyCheck(r) ==
    IF ~API_KEY
    THEN /\ cpc' = "raised"
         /\ error' = ConfigError
         /\ attempt' = 0
         /\ requests' = 0
    ELSE /\ error' = NoError
         /\ attempt' = 1
         /\ IF 1 <= r
            THEN cpc' = "fetching" /\ requests' = 1
            ELSE cpc' = "returned" /\ requests' = 0

\* The call queryOpenRouter(msgs, temp, r), up to its first await.
queryOpenRouter(msgs, temp, r) ==
    /\ messages' = msgs
    /\ temperature' = temp
    /\ retries' = r
    /\ sleeps' = <<>>
    /\ hist' = <<>>
    /\ response' = Pending
    /\ result' = EmptyText
    /\ KeyCheck(r)
    /\ UNCHANGED API_KEY

\* The fetch of the current attempt ends with outcome o; the function runs to
\* its next await, its return or its throw.
Respond(o) ==
    /\ cpc = "fetching"
    /\ response' = o
    /\ IF o.status = TooManyRequests
       THEN /\ hist' = Append(hist, "rateLimited")
            /\ sleeps' = Append(sleeps, RateLimitWait(attempt))
            /\ cpc' = "sleeping"
            /\ UNCHANGED <<result, error>>
       ELSE IF Thrown(o) # NoError
       THEN /\ hist' = Append(hist, "failed")
            /\ IF LastAttempt(attempt, retries)
               THEN /\ cpc' = "raised"
                    /\ error' = Thrown(o)
                    /\ UNCHANGED sleeps
               ELSE /\ cpc' = "sleeping"
                    /\ sleeps' = Append(sleeps, ErrorWait)
                    /\ UNCHANGED error
            /\ UNCHANGED result
       ELSE /\ hist' = Append(hist, "succeeded")
            /\ cpc' = "returned"
            /\ result' = Extract(o.body)
            /\ UNCHANGED <<sleeps, error>>
    /\ UNCHANGED <<API_KEY, messages, temperature, retries, attempt, requests>>
    /\ UNCHANGED <<cleanVars, mainVars>>

\* The timer of the current attempt fires: attempt++, and either the next
\* fetch is issued or the loop ends.
Wake ==
    /\ cpc = "sleeping"
    /\ attempt' = attempt + 1
    /\ IF attempt + 1 <= retries
       THEN /\ cpc' = "fetching"
            /\ requests' = requests + 1
            /\ response' = Pending
            /\ UNCHANGED <<result, error>>
       ELSE LoopExit
    /\ UNCHANGED <<API_KEY, messages, temperature, retries, sleeps, hist>>
    /\ UNCHANGED <<cleanVars, mainVars>>

\* ----------------------------------------------------------------- agents

\* The one message an agent sends: its template filled with its two texts.
Prompt(agent, context, primary) ==
    <<[role |-> "user",
       content |-> [template |-> agent, context |-> context, primary |-> primary]]>>

architectAgent(prompt, spec) ==
    /\ calls' = Append(calls, [agent |-> "architect", primary |-> prompt, context |-> spec])
    /\ queryOpenRouter(Prompt("architect", spec, prompt), ArchitectTemperature, DefaultRetries)

auditorAgent(c, spec) ==
    /\ calls' = Append(calls, [agent |-> "auditor", primary |-> c, context |-> spec])
    /\ queryOpenRouter(Prompt("auditor", spec, c), AuditorTemperature, DefaultRetries)

reviewerAgent(c, reviewRules) ==
    /\ calls' = Append(calls, [agent |-> "reviewer", primary |-> c, context |-> reviewRules])
    /\ queryOpenRouter(Prompt("reviewer", reviewRules, c), ReviewerTemperature, DefaultRetries)

\* ------------------------------------------------------------------- main

\* What the command line and the files may hold.
UserPrompts == {EmptyText, <<"a", " ", "a">>}
SpecPaths == {EmptyText, <<"a", "+">>}
ReviewPaths == {EmptyText, <<"+", "a">>}
SpecTexts == {<<"a">>, <<"a", "a">>}
ReviewTexts == {EmptyText, <<"+">>}

\* The process has not ended.
Running == <<>>
\* No Deno.writeTextFile yet.
NoWrites == <<>>

\* A Reviewer that runs whatever the rules are.
ReviewAlways(rules) == TRUE

\* if (reviewContent)
ReviewEnabled(rules) == rules # EmptyText

\* An Auditor stage whose result is written out as the model returned it.
OutputRaw(c) ==
    /\ outFile' = Append(outFile, result)
    /\ pc' = "done"
    /\ exitCode' = <<0>>

\* await Deno.writeTextFile(outPath, code); main returns and the process
\* ends with status 0.
Output(c) ==
    /\ outFile' = Append(outFile, c)
    /\ pc' = "done"
    /\ exitCode' = <<0>>

\* The start of main without a key in the environment: the key is asked
\* for, and the process exits with status 1 when none is typed.
AskKey ==
    /\ pc = "start" /\ ~API_KEY
    /\ \E typed \in BOOLEAN :
          /\ API_KEY' = typed
          /\ IF typed
             THEN UNCHANGED <<pc, exitCode>>
             ELSE pc' = "exited" /\ exitCode' = <<1>>
    /\ UNCHANGED <<messages, temperature, retries, attempt, cpc, result, error,
                   requests, sleeps, hist, response>>
    /\ UNCHANGED <<specContent, reviewContent, code, calls, returns, outFile>>
    /\ UNCHANGED cleanVars

\* main with a key, up to its first request: the arguments are parsed (usage
\* and exit 0 without a prompt or a --spec), the files are read and the
\* Architect is called.  The file system is outside the model: the reads
\* and the final write are taken to succeed.
MainStart ==
    /\ pc = "start" /\ API_KEY
    /\ \E userPrompt \in UserPrompts, specPath \in SpecPaths,
          reviewPath \in ReviewPaths, specFile \in SpecTexts, reviewFile \in ReviewTexts :
          IF userPrompt = EmptyText \/ specPath = EmptyText
          THEN /\ pc' = "exited"
               /\ exitCode' = <<0>>
               /\ UNCHANGED <<specContent, reviewContent, calls>>
               /\ UNCHANGED clientVars
          ELSE /\ pc' = "architect"
               /\ specContent' = specFile
               /\ reviewContent' = IF reviewPath # EmptyText THEN reviewFile ELSE EmptyText
               /\ architectAgent(userPrompt, specFile)
               /\ UNCHANGED exitCode
    /\ UNCHANGED <<code, returns, outFile>>
    /\ UNCHANGED cleanVars

\* A pipeline that takes an empty result of the Architect for a failure.
AfterArchitectRejectsEmpty ==
    /\ pc = "architect" /\ cpc = "returned"
    /\ IF result = EmptyText
       THEN /\ pc' = "failed"
            /\ exitCode' = <<0>>
            /\ UNCHANGED <<code, calls, returns>>
            /\ UNCHANGED clientVars
       ELSE /\ returns' = Append(returns, result)
            /\ code' = cleanCode(result)
            /\ auditorAgent(cleanCode(result), specContent)
            /\ pc' = "auditor"
            /\ UNCHANGED exitCode
    /\ UNCHANGED <<specContent, reviewContent, outFile>>
    /\ UNCHANGED cleanVars

\* A pipeline that hands the Auditor what the Architect returned, fences and
\* all.
AfterArchitectRaw ==
    /\ pc = "architect" /\ cpc = "returned"
    /\ returns' = Append(returns, result)
    /\ code' = result
    /\ auditorAgent(result, specContent)
    /\ pc' = "auditor"
    /\ UNCHANGED <<specContent, reviewContent, outFile, exitCode>>
    /\ UNCHANGED cleanVars

\* The Architect has returned: code = cleanCode(code), and the Auditor is
\* called.
AfterArchitect ==
    /\ pc = "architect" /\ cpc = "returned"
    /\ returns' = Append(returns, result)
    /\ code' = cleanCode(result)
    /\ auditorAgent(cleanCode(result), specContent)
    /\ pc' = "auditor"
    /\ UNCHANGED <<specContent, reviewContent, outFile, exitCode>>
    /\ UNCHANGED cleanVars

\* The Auditor has returned: code = cleanCode(code); with review rules the
\* Reviewer is called, without them the code is written out.
AfterAuditor ==
    /\ pc = "auditor" /\ cpc = "returned"
    /\ returns' = Append(returns, result)
    /\ code' = cleanCode(result)
    /\ IF ReviewEnabled(reviewContent)
       THEN /\ reviewerAgent(cleanCode(result), reviewContent)
            /\ pc' = "reviewer"
            /\ UNCHANGED <<outFile, exitCode>>
       ELSE /\ Output(cleanCode(result))
            /\ UNCHANGED calls
            /\ UNCHANGED clientVars
    /\ UNCHANGED <<specContent, reviewContent>>
    /\ UNCHANGED cleanVars

\* The Reviewer has returned: code = cleanCode(code), and the code is
\* written out.
AfterReviewer ==
    /\ pc = "reviewer" /\ cpc = "returned"
    /\ returns' = Append(returns, result)
    /\ code' = cleanCode(result)
    /\ Output(cleanCode(result))
    /\ UNCHANGED <<specContent, reviewContent, calls>>
    /\ UNCHANGED clientVars
    /\ UNCHANGED cleanVars

\* A catch block that saves what there is.
CatchErrorWritesPartial ==
    /\ pc \in {"architect", "auditor", "reviewer"} /\ cpc = "raised"
    /\ pc' = "failed"
    /\ exitCode' = <<0>>
    /\ outFile' = Append(outFile, code)
    /\ UNCHANGED <<specContent, reviewContent, code, calls, returns>>
    /\ UNCHANGED clientVars
    /\ UNCHANGED cleanVars

\* An agent's call has raised: the catch block of main prints the error,
\* main returns and the process ends with status 0.
CatchError ==
    /\ pc \in {"architect", "auditor", "reviewer"} /\ cpc = "raised"
    /\ pc' = "failed"
    /\ exitCode' = <<0>>
    /\ UNCHANGED <<specContent, reviewContent, code, calls, returns, outFile>>
    /\ UNCHANGED clientVars
    /\ UNCHANGED cleanVars

\* --------------------------------------------------------- specifications

IdleClean == str = EmptyText /\ cleaned = <<>> /\ recleaned = <<>>

IdleClient(key) ==
    /\ API_KEY = key
    /\ messages = <<>>
    /\ temperature = DefaultTemperature
    /\ retries = DefaultRetries
    /\ attempt = 0
    /\ cpc = "idle"
    /\ result = EmptyText
    /\ error = NoError
    /\ requests = 0
    /\ sleeps = <<>>
    /\ hist = <<>>
    /\ response = Pending

IdleMain(at) ==
    /\ pc = at
    /\ specContent = EmptyText
    /\ reviewContent = EmptyText
    /\ code = EmptyText
    /\ calls = <<>>
    /\ returns = <<>>
    /\ outFile = NoWrites
    /\ exitCode = Running

\* The pipeline: the process starts with or without a key in the environment.
Init == IdleClean /\ (\E key \in BOOLEAN : IdleClient(key)) /\ IdleMain("start")

Next ==
    \/ AskKey
    \/ MainStart
    \/ \E o \in Outcomes : Respond(o)
    \/ Wake
    \/ AfterArchitect
    \/ AfterAuditor
    \/ AfterReviewer
    \/ CatchError

Spec == Init /\ [][Next]_vars

\* queryOpenRouter alone: one call, with or without a key, with any retry
\* budget from 1 to MaxRetries.
InitClient == IdleClean /\ (\E key \in BOOLEAN : IdleClient(key)) /\ IdleMain("none")

Call ==
    /\ cpc = "idle"
    /\ \E r \in 1..MaxRetries :
          queryOpenRouter(Prompt("architect", <<"a">>, <<"a", " ", "a">>),
                          DefaultTemperature, r)
    /\ UNCHANGED <<cleanVars, mainVars>>

NextClient ==
    \/ Call
    \/ \E o \in Outcomes : Respond(o)
    \/ Wake

SpecClient == InitClient /\ [][NextClient]_vars

\* The same call where every step that can be taken is taken in the end: the
\* call is made, every fetch is settled (with one of the outcomes) and every
\* timer fires.
FairSpecClient == SpecClient /\ WF_vars(NextClient)

\* cleanCode alone: applied to a text, and to its own result.
\* A fenced text: an opening fence line with its language tag, the interior,
\* the closing fence.
FencedForm(tag, interior) == Fence \o tag \o <<NL>> \o interior \o Fence

CleanInputs ==
    TextsUpTo(Alphabet, MaxLen)
    \cup {FencedForm(tag, interior) :
            tag \in TextsUpTo(TagAlphabet, MaxTag),
            interior \in {t \in TextsUpTo(FullAlphabet, MaxInterior) : ~HasFence(t)}}

InitClean ==
    /\ str \in CleanInputs
    /\ cleaned = <<>>
    /\ recleaned = <<>>
    /\ IdleClient(TRUE)
    /\ IdleMain("none")

Sanitize ==
    /\ cleaned = <<>>
    /\ cleaned' = <<cleanCode(str)>>
    /\ recleaned' = <<cleanCode(cleanCode(str))>>
    /\ UNCHANGED <<str, clientVars, mainVars>>

NextClean == Sanitize

SpecClean == InitClean /\ [][NextClean]_vars

\* ------------------------------------------------------------------ claims

\* Every finished attempt of the current call ended the way `how` says.
AllAttempts(how) == \A i \in 1..Len(hist) : hist[i] = how

\* Every attempt before the latest was rate-limited.
EarlierRateLimited == \A i \in 1..(Len(hist) - 1) : hist[i] = "rateLimited"

\* C1: when attempts 1..n-1 of a call each receive status 429 and attempt n
\* (n <= retries) receives a success status with content c, the call returns
\* c, has made exactly n requests and has slept exactly n-1 times, for
\* 2000*1, 2000*2, ..., 2000*(n-1) ms in this order.
C1_RateLimitedThenSuccess ==
    (/\ Len(hist) >= 1
     /\ EarlierRateLimited
     /\ Ok(response.status)
     /\ response.body.shape = "content")
    => /\ cpc = "returned"
       /\ result = response.body.content
       /\ Len(hist) <= retries
       /\ requests = Len(hist)
       /\ sleeps = [i \in 1..(Len(hist) - 1) |-> 2000 * i]

C1_Witness ==
    /\ retries = 3
    /\ hist = <<"rateLimited", "rateLimited", "succeeded">>
    /\ cpc = "returned"
    /\ result = FencedText
    /\ sleeps = <<2000, 4000>>

\* C2: when each of the retries attempts of a call fails with an error that
\* is no rate limit, the call raises the error of the last attempt, having
\* made exactly retries requests and slept only between the attempts
\* (1000 ms after each attempt but the last).
C2_AllFailRaisesLast ==
    (Len(hist) = retries /\ AllAttempts("failed"))
    => /\ cpc = "raised"
       /\ error # NoError
       /\ error = Thrown(response)
       /\ response.status \notin {200, 429} /\ response.status > 0
            => error = [kind |-> "api", status |-> response.status]
       /\ requests = retries
       /\ sleeps = [i \in 1..(retries - 1) |-> 1000]

C2_Witness ==
    /\ retries = 3
    /\ hist = <<"failed", "failed", "failed">>
    /\ cpc = "raised"
    /\ error = [kind |-> "api", status |-> 503]
    /\ requests = 3

\* C3: when each of the retries attempts of a call receives status 429, the
\* call does not raise: it makes exactly retries requests and what it
\* returns is the empty text.
C3_AllRateLimitedReturnsEmpty ==
    (Len(hist) = retries /\ AllAttempts("rateLimited"))
    => /\ cpc \in {"sleeping", "returned"}
       /\ error = NoError
       /\ requests = retries
       /\ cpc = "returned" => result = EmptyText

C3_Witness ==
    /\ retries = 3
    /\ hist = <<"rateLimited", "rateLimited", "rateLimited">>
    /\ cpc = "returned"
    /\ result = EmptyText
    /\ requests = 3

\* C10: a call made without an API key raises the configuration error
\* before any request: no request, no sleep, no attempt of the retry loop.
C10_NoKeyFailsFast ==
    (~API_KEY /\ cpc # "idle")
    => /\ cpc = "raised"
       /\ error = ConfigError
       /\ requests = 0
       /\ sleeps = <<>>
       /\ hist = <<>>
       /\ attempt = 0

C10_Witness == ~API_KEY /\ cpc = "raised" /\ error = ConfigError /\ retries = 3

\* The agents called so far, in order.
Called == [i \in 1..Len(calls) |-> calls[i].agent]

\* C4: in a run whose review rules are empty or absent the Reviewer is never
\* called, and a run that completes has written cleanCode of what the
\* Auditor returned.
C4_NoRulesNoReviewer ==
    reviewContent = EmptyText
    => /\ pc # "reviewer"
       /\ \A i \in 1..Len(calls) : calls[i].agent # "reviewer"
       /\ pc = "done"
            => /\ Called = <<"architect", "auditor">>
               /\ Len(returns) = 2
               /\ outFile = <<cleanCode(returns[2])>>

C4_Witness ==
    /\ pc = "done"
    /\ reviewContent = EmptyText
    /\ returns[2] = FencedText
    /\ outFile = <<(<<"a", "a">>)>>

\* C5: a completed run with review rules has called the Reviewer exactly
\* once, with cleanCode of what the Auditor returned and the rules, and has
\* written cleanCode of what the Reviewer returned.
C5_RulesReviewerOnce ==
    (pc = "done" /\ reviewContent # EmptyText)
    => /\ Called = <<"architect", "auditor", "reviewer">>
       /\ Len(returns) = 3
       /\ calls[3].primary = cleanCode(returns[2])
       /\ calls[3].context = reviewContent
       /\ messages = Prompt("reviewer", reviewContent, cleanCode(returns[2]))
       /\ outFile = <<cleanCode(returns[3])>>

C5_Witness ==
    /\ pc = "done"
    /\ reviewContent = <<"+">>
    /\ returns[2] = PaddedText
    /\ calls[3].primary = <<"a", "+">>
    /\ returns[3] = FencedText
    /\ outFile = <<(<<"a", "a">>)>>

\* C6: a stage is called only when every stage before it has returned, a run
\* in which a stage raised ends with that stage as its last and writes
\* nothing, and the output is written only after every enabled stage has
\* returned.
C6_RaiseAbortsRun ==
    /\ pc \in {"architect", "auditor", "reviewer", "failed"}
         => Len(calls) = Len(returns) + 1
    /\ pc = "failed" => cpc = "raised"
    /\ cpc = "raised" => outFile = NoWrites
    /\ outFile # NoWrites
         => /\ pc = "done"
            /\ Len(outFile) = 1
            /\ Len(returns) = Len(calls)
            /\ Len(calls) = IF reviewContent # EmptyText THEN 3 ELSE 2

C6_Witness ==
    /\ pc = "failed"
    /\ reviewContent # EmptyText
    /\ Called = <<"architect", "auditor">>
    /\ error = TransportError

\* C7: a run that ended in Failed because a stage raised has ended the
\* process with a status that is not the success status 0.
C7_FailedExitsNonZero ==
    pc = "failed" => (exitCode # Running /\ exitCode # <<0>>)

\* The language tag of a fenced text ends where the first character that is
\* no tag character stands.
RECURSIVE SkipTag(_, _)
SkipTag(s, i) ==
    IF i <= Len(s) /\ s[i] \in TagAlphabet THEN SkipTag(s, i + 1) ELSE i

\* s is an opening fence line with an optional language tag, an interior
\* without a fence marker, and a closing fence.
IsFencedForm(s) ==
    /\ Len(s) >= 7
    /\ FenceAt(s, 1)
    /\ FenceAt(s, Len(s) - 2)
    /\ SkipTag(s, 4) <= Len(s) - 3
    /\ s[SkipTag(s, 4)] = NL
    /\ ~HasFence(SubSeq(s, SkipTag(s, 4) + 1, Len(s) - 3))

Tag(s) == SubSeq(s, 4, SkipTag(s, 4) - 1)
Interior(s) == SubSeq(s, SkipTag(s, 4) + 1, Len(s) - 3)

\* C8: cleanCode is idempotent, cleanCode(cleanCode(x)) = cleanCode(x), and
\* leaves a text without fence marker and without white space at its ends
\* as it is.
C8_CleanCodeIdempotent ==
    cleaned # <<>>
    => /\ recleaned = cleaned
       /\ IsClean(str) => cleaned = <<str>>

C8_Witness ==
    /\ cleaned # <<>>
    /\ HasFence(str)
    /\ cleaned # <<str>>
    /\ cleaned # <<EmptyText>>
    /\ recleaned = cleaned

\* C9: of a fenced text (opening fence line with an optional language tag,
\* interior without fence marker, closing fence) cleanCode returns exactly
\* the trimmed interior: both markers and the whole tag are removed.
C9_FencedGivesInterior ==
    (cleaned # <<>> /\ IsFencedForm(str))
    => cleaned = <<Trim(Interior(str))>>

\* The same for the tags made of word characters only.
FencedWordTagGivesInterior ==
    (cleaned # <<>> /\ IsFencedForm(str) /\ \A i \in 1..Len(Tag(str)) : Tag(str)[i] \in WordChars)
    => cleaned = <<Trim(Interior(str))>>

\* C11: an attempt that receives a success status with a JSON body ends the
\* call on that attempt, without raising and without a further attempt: the
\* call returns the content of the first choice, and the empty text when the
\* body has no choices field, an empty choices list, no message, no content
\* or an empty content.
C11_SuccessStatusReturns ==
    (/\ Ok(response.status)
     /\ response.body.shape \in {"noChoices", "emptyChoices", "noMessage",
                                 "noContent", "content"})
    => /\ cpc = "returned"
       /\ error = NoError
       /\ result = IF response.body.shape = "content"
                   THEN response.body.content ELSE EmptyText

\* The same for the bodies that have a choices array.
SuccessWithChoicesReturns ==
    (/\ Ok(response.status)
     /\ response.body.shape \in {"emptyChoices", "noMessage", "noContent", "content"})
    => /\ cpc = "returned"
       /\ error = NoError
       /\ hist[Len(hist)] = "succeeded"
       /\ requests = Len(hist)
       /\ result = IF response.body.shape = "content"
                   THEN response.body.content ELSE EmptyText

\* A stage's call has returned the empty text and main resumes.
EmptyReturned ==
    /\ pc \in {"architect", "auditor", "reviewer"}
    /\ cpc = "returned"
    /\ result = EmptyText

\* C12: an empty text returned by the client is valid content at every
\* stage: the agent hands it on unchanged, without another call of its own
\* and without failing; the next enabled stage is called with the empty
\* artifact, and after the last enabled stage the run is done and has
\* written the empty artifact.
C12_EmptyResultPassesThrough ==
    [][EmptyReturned
       => /\ returns' = Append(returns, EmptyText)
          /\ code' = EmptyText
          /\ pc' # "failed"
          /\ IF pc = "architect"
             THEN /\ pc' = "auditor"
                  /\ calls' = Append(calls, [agent |-> "auditor", primary |-> EmptyText,
                                             context |-> specContent])
                  /\ outFile' = NoWrites
             ELSE IF pc = "auditor" /\ reviewContent # EmptyText
             THEN /\ pc' = "reviewer"
                  /\ calls' = Append(calls, [agent |-> "reviewer", primary |-> EmptyText,
                                             context |-> reviewContent])
                  /\ outFile' = NoWrites
             ELSE /\ pc' = "done"
                  /\ calls' = calls
                  /\ outFile' = <<EmptyText>>]_vars

C12_Witness ==
    /\ pc = "done"
    /\ reviewContent # EmptyText
    /\ returns = <<EmptyText, EmptyText, EmptyText>>
    /\ Called = <<"architect", "auditor", "reviewer">>
    /\ outFile = <<EmptyText>>

\* The latest attempt got a status that is neither 2xx nor 429.
BadStatus == response.status > 0 /\ ~Ok(response.status) /\ response.status # 429

\* The latest attempt ended in a transport failure (fetch rejected) or a
\* parse failure (the body of a 2xx response is no JSON).
TransportOrParseFailure ==
    \/ response.status = 0
    \/ Ok(response.status) /\ response.body.shape = "unparsable"

\* What the catch block does with the failure of attempt Len(hist): before
\* the last attempt a wait of 1000 ms, to be followed by the next attempt; on
\* the last attempt the error e is raised, with no wait.
HandledAsFailure(e) ==
    /\ hist # <<>>
    /\ hist[Len(hist)] = "failed"
    /\ requests = Len(hist)
    /\ Len(hist) <= retries
    /\ IF Len(hist) = retries
       THEN /\ cpc = "raised"
            /\ error = e
            /\ Len(sleeps) = retries - 1
       ELSE /\ cpc = "sleeping"
            /\ error = NoError
            /\ attempt < retries
            /\ Len(sleeps) = Len(hist)
            /\ sleeps[Len(sleeps)] = 1000

\* C13: a status that is neither 2xx nor 429 is handled as a transport or
\* parse failure is: before the last attempt the call waits 1000 ms and
\* tries again, on the last attempt it raises an error that carries the
\* status of that attempt; the retry budget is the same for both.
C13_BadStatusLikeFailure ==
    /\ BadStatus => HandledAsFailure([kind |-> "api", status |-> response.status])
    /\ TransportOrParseFailure
         => HandledAsFailure([kind |-> IF response.status = 0 THEN "transport" ELSE "parse",
                              status |-> 0])

C13_Witness ==
    /\ retries = 3
    /\ hist = <<"failed", "failed", "failed">>
    /\ sleeps = <<1000, 1000>>
    /\ response.status = 500
    /\ cpc = "raised"
    /\ error = [kind |-> "api", status |-> 500]

StageOrder == <<"architect", "auditor", "reviewer">>

\* The stages called so far are the first stages of the order, each once;
\* while a stage runs it is the last one called and every stage before it
\* has returned; the Auditor was given cleanCode of what the Architect
\* returned and the specification text the Architect was given.
StagesInOrder ==
    /\ Len(calls) <= 3
    /\ \A i \in 1..Len(calls) : calls[i].agent = StageOrder[i]
    /\ Len(returns) <= Len(calls)
    /\ pc \in {"architect", "auditor", "reviewer"}
         => /\ calls[Len(calls)].agent = pc
            /\ Len(returns) = Len(calls) - 1
            /\ cpc \in {"fetching", "sleeping", "returned", "raised"}
            /\ requests <= retries
    /\ Len(calls) >= 2
         => /\ calls[2].primary = cleanCode(returns[1])
            /\ calls[2].context = calls[1].context
            /\ calls[2].context = specContent

\* C14: the stages of a run execute in the order Architect, Auditor,
\* Reviewer, each at most once and one at a time: a stage after the first is
\* called, and its first request issued, only by the step that takes the
\* returned result of the stage before it; the Auditor receives cleanCode of
\* the Architect's raw result and the Architect's specification text.
C14_StagesSequential ==
    /\ []StagesInOrder
    /\ [][(calls' # calls /\ calls # <<>>)
          => /\ cpc = "returned"
             /\ calls' = Append(calls, calls'[Len(calls')])
             /\ returns' = Append(returns, result)
             /\ requests' = 1
             /\ cpc' = "fetching"]_vars

C14_Witness ==
    /\ pc = "reviewer"
    /\ cpc = "sleeping"
    /\ Called = StageOrder
    /\ returns = <<FencedText, PaddedText>>
    /\ calls[2].primary = <<"a", "a">>
    /\ calls[2].context = <<"a", "a">>

RECURSIVE SumSeq(_)
SumSeq(s) == IF s = <<>> THEN 0 ELSE Head(s) + SumSeq(Tail(s))

\* 2000*1 + 2000*2 + ... + 2000*n
RECURSIVE MaxTotalWait(_)
MaxTotalWait(n) == IF n <= 0 THEN 0 ELSE 2000 * n + MaxTotalWait(n - 1)

Terminated == cpc \in {"returned", "raised"}

\* C15: whatever the outcomes of its attempts, a call makes at most retries
\* requests, sleeps at most 2000*1 + ... + 2000*retries ms in total, and
\* ends: it returns or raises.
C15_CallTerminatesBounded ==
    /\ [](requests <= retries /\ SumSeq(sleeps) <= MaxTotalWait(retries))
    /\ <>Terminated

C15_Witness ==
    /\ retries = 3
    /\ Terminated
    /\ requests = 3
    /\ hist = <<"rateLimited", "rateLimited", "rateLimited">>
    /\ SumSeq(sleeps) = 12000

\* C16: in every sequence of outcomes, mixed ones included, the wait after
\* rate-limited attempt number i (counted over all attempts of the call) is
\* 2000*i ms, and the wait after any other failed attempt but the last
\* allowed one is 1000 ms.
C16_WaitByAttemptNumber ==
    /\ Len(sleeps) <= Len(hist)
    /\ \A i \in 1..Len(hist) :
          /\ hist[i] = "rateLimited"
               => i <= Len(sleeps) /\ sleeps[i] = 2000 * i
          /\ (hist[i] = "failed" /\ i < retries)
               => i <= Len(sleeps) /\ sleeps[i] = 1000
          /\ (hist[i] = "succeeded" \/ (hist[i] = "failed" /\ i = retries))
               => Len(sleeps) = i - 1

C16_Witness ==
    /\ retries = 3
    /\ hist = <<"failed", "rateLimited", "failed">>
    /\ sleeps = <<1000, 4000>>
    /\ cpc = "raised"

\* C17: every wait of a call is followed by another attempt: the step that
\* ends a sleep issues the next request, so the call never sleeps after its
\* last allowed attempt.
C17_WaitThenRetry ==
    [][cpc = "sleeping"
       => /\ attempt < retries
          /\ cpc' = "fetching"
          /\ requests' = requests + 1]_vars

\* The same for the waits of the catch block: a failure that is no rate
\* limit is followed by a wait only when an attempt is left.
ErrorWaitThenRetry ==
    (cpc = "sleeping" /\ hist[Len(hist)] = "failed") => attempt < retries

NoSuccess == \A i \in 1..Len(hist) : hist[i] # "succeeded"

\* C18: a call with a key in which no attempt succeeds ends the way its
\* last attempt, number retries, decides: it raises (the error of that
\* attempt) exactly when that attempt failed with something else than a
\* rate limit, and returns the empty text exactly when that attempt was
\* rate-limited, whatever errors the attempts before raised.
C18_LastAttemptDecides ==
    /\ (Terminated /\ API_KEY /\ NoSuccess)
         => /\ Len(hist) = retries
            /\ cpc = "raised" <=> hist[retries] = "failed"
            /\ cpc = "returned" <=> hist[retries] = "rateLimited"
            /\ cpc = "raised" => error = Thrown(response) /\ error # NoError
            /\ cpc = "returned" => result = EmptyText /\ error = NoError
    /\ (Len(hist) = retries /\ NoSuccess)
         => /\ hist[retries] = "failed" => cpc = "raised"
            /\ hist[retries] = "rateLimited" => cpc \in {"sleeping", "returned"}

C18_Witness ==
    /\ retries = 3
    /\ hist = <<"failed", "failed", "rateLimited">>
    /\ cpc = "returned"
    /\ result = EmptyText
    /\ error = NoError

\* C19: the result of cleanCode holds no run of three backticks and has no
\* white space at its start or end.
C19_CleanCodeResultClean ==
    cleaned # <<>> => IsClean(cleaned[1])

\* A text in which removing the opening fence line joins backticks into a
\* new fence marker, which the second replace then removes.
C19_Witness ==
    /\ str = <<BT, BT, BT, BT, NL, BT, BT>>
    /\ ReplaceOpen(str, 1) = Fence
    /\ cleaned = <<EmptyText>>

\* Hence in a run every text handed to the Auditor or the Reviewer as code,
\* the variable code itself and every text written out is clean.
ArtifactsClean ==
    /\ IsClean(code)
    /\ \A i \in 2..Len(calls) : IsClean(calls[i].primary)
    /\ \A i \in 1..Len(outFile) : IsClean(outFile[i])

=============================================================================
